---- MODULE Spec2Model ----
(***************************************************************************)
(* Identity lifecycle of comercial-bss: AuthService (register, login,      *)
(* verifyCode, forgotPassword, resetPassword, validateGoogleUser) over the *)
(* users table of user.entity.ts.  Every operation is one action: the      *)
(* whole handler, from its lookup to its save and its mail.                *)
(*                                                                         *)
(* Strings are sequences of one-character strings, so that formatting      *)
(* (Number.toString, split) is computed and not assumed.  A nullable       *)
(* column holds NULL or Some(s); the empty string is Some(<<>>).           *)
(* Columns createdAt/updatedAt are set by the storage layer and read by    *)
(* no operation; they are not part of the state.                           *)
(***************************************************************************)
EXTENDS Integers, Sequences, FiniteSets, TLC

\* users: the rows of the table.  outbox: the mail handed to MailService by
\* the last call.  last: the last call and its result.  call: the handler
\* that is suspended at an await, when one is (pc "idle" otherwise).
VARIABLES users, outbox, last, call

vars == <<users, outbox, last, call>>

-----------------------------------------------------------------------------
(* Values *)

NULL == <<>>

Some(s) == <<s>>

EmptyStr == <<>>

EmailA == <<"a", "@", "x">>

EmailB == <<"b", "@", "x">>

Emails == {EmailA, EmailB}

CpfA == <<"1", "1", "1">>

CpfB == <<"5", "2", "9">>

Cpfs == {CpfA, CpfB}

PhoneA == <<"+", "5", "5", "1">>

Phones == {PhoneA}

Passwords == {<<"p">>, <<"q">>}

FullNames == {<<"A", "n", " ", "L">>}

Usernames == {EmptyStr}

LoginDtos == [email : Emails, password : Passwords]

RegisterDtos ==
  [email : Emails, password : Passwords, cpf : Cpfs, fullName : FullNames,
   phone : Phones, username : Usernames]

GoogleIdA == <<"g", "1">>

\* Latest instant new Date() can return; instants are 1..MaxTime.
MaxTime == 1

Times == 1..MaxTime

\* A profile as passport hands it over: emails and photos are the lists of
\* their entries' value fields (absent list = empty list), the flat fields
\* are empty when absent.
GoogleProfile(emails, email, hasName, givenName, familyName, fullName, photos, picture, id) ==
  [emails |-> emails, email |-> email, hasName |-> hasName, givenName |-> givenName,
   familyName |-> familyName, fullName |-> fullName, photos |-> photos,
   picture |-> picture, id |-> id]

GoogleProfiles ==
  {GoogleProfile(<<e>>, EmptyStr, TRUE, <<"A", "n", "a">>, <<"L", "i", "m", "a">>,
                 EmptyStr, <<>>, EmptyStr, GoogleIdA) : e \in Emails}
  \cup {GoogleProfile(<<>>, EmptyStr, FALSE, EmptyStr, EmptyStr, <<"A", "n", "a">>,
                      <<>>, EmptyStr, GoogleIdA)}

\* Math.random() returns r in [0, 1); r is the rational k / RandUnit, k in
\* 0..RandUnit-1 (thousandths keep every product within 32 bits).
RandUnit == 1000

\* Number of evenly spaced draws of Math.random() that are explored.
RandRes == 1

RandSamples == {(k * RandUnit) \div RandRes : k \in 0..(RandRes - 1)} \cup {RandUnit - 1}

-----------------------------------------------------------------------------
(* String helpers *)

DigitChar(d) == <<"0", "1", "2", "3", "4", "5", "6", "7", "8", "9">>[d + 1]

Digits == {DigitChar(d) : d \in 0..9}

\* Number.prototype.toString() of a non-negative integer.
RECURSIVE NumberToString(_)
NumberToString(n) ==
  IF n < 10 THEN <<DigitChar(n)>>
  ELSE NumberToString(n \div 10) \o <<DigitChar(n % 10)>>

\* s.split(sep)[0]
RECURSIVE SplitFirst(_, _)
SplitFirst(s, sep) ==
  IF s = <<>> \/ Head(s) = sep THEN <<>>
  ELSE <<Head(s)>> \o SplitFirst(Tail(s), sep)

\* a || b on strings: the empty string is falsy.
OrElse(a, b) == IF a # EmptyStr THEN a ELSE b

\* a || b where b is a nullable column: Some(a) unless a is empty.
OrElseColumn(a, col) == IF a # EmptyStr THEN Some(a) ELSE col

\* col || b where col is a nullable column: null and '' are both falsy.
ColumnOrElse(col, b) == IF col # NULL /\ col # Some(EmptyStr) THEN col ELSE Some(b)

RECURSIVE TrimStart(_)
TrimStart(s) == IF s # <<>> /\ Head(s) = " " THEN TrimStart(Tail(s)) ELSE s

RECURSIVE TrimEnd(_)
TrimEnd(s) ==
  IF s # <<>> /\ s[Len(s)] = " " THEN TrimEnd(SubSeq(s, 1, Len(s) - 1)) ELSE s

\* String.prototype.trim()
Trim(s) == TrimEnd(TrimStart(s))

-----------------------------------------------------------------------------
(* The users table *)

\* Repository.findOne: the position of the first of the matching rows, 0
\* (no entity) when no row matches.
FindOne(matching) ==
  IF matching = {} THEN 0
  ELSE CHOOSE i \in matching : \A j \in matching : i <= j

findByEmail(us, email) ==
  FindOne({i \in 1..Len(us) : us[i].email = email})

FindByCpf(us, cpf) ==
  FindOne({i \in 1..Len(us) : us[i].cpf = cpf})

\* Variant: the lookup is by email alone.
FindByEmailOnly(us, email, code) ==
  FindOne({i \in 1..Len(us) : us[i].email = email})

\* Variant: the lookup is by code alone.
FindByCodeOnly(us, email, code) ==
  FindOne({i \in 1..Len(us) : us[i].verificationCode = Some(code)})

\* findOne({ where: { email, verificationCode: code } }) for a string code:
\* an exact match on both columns; a null column equals no string.
FindByEmailAndCode(us, email, code) ==
  FindOne({i \in 1..Len(us) : us[i].email = email /\ us[i].verificationCode = Some(code)})

\* Variant: only the cpf column is unique.
UniqueOkCpfOnly(us, rec) ==
  \A i \in 1..Len(us) : us[i].id # rec.id => us[i].cpf # rec.cpf

\* Variant: only the email column is unique.
UniqueOkEmailOnly(us, rec) ==
  \A i \in 1..Len(us) : us[i].id # rec.id => us[i].email # rec.email

\* The unique columns of the entity: a write is rejected when another row
\* already holds the same cpf or the same email.
UniqueOk(us, rec) ==
  \A i \in 1..Len(us) :
    us[i].id # rec.id => (us[i].cpf # rec.cpf /\ us[i].email # rec.email)

\* Repository.save: insert when the entity has no id (id 0), update otherwise.
SaveRows(us, rec) ==
  IF rec.id = 0
  THEN Append(us, [rec EXCEPT !.id = Len(us) + 1])
  ELSE [i \in 1..Len(us) |-> IF us[i].id = rec.id THEN rec ELSE us[i]]

-----------------------------------------------------------------------------
(* Results *)

NoUser == NULL

\* The call that ran last, with the arguments it received, and what it
\* returned or raised: outcome "ok" is a normal return, anything else names
\* the exception.
Reply(op, args, outcome, message, user, accessToken) ==
  [op |-> op, args |-> args, outcome |-> outcome, message |-> message, user |-> user,
   accessToken |-> accessToken]

Mail(kind, to, code) == [kind |-> kind, to |-> to, code |-> code]

\* Variant: the 100000 offset is missing.
NewVerificationCodeNoOffset(k) == NumberToString((k * 900000) \div RandUnit)

\* Math.floor(100000 + Math.random() * 900000).toString()
NewVerificationCode(k) == NumberToString(100000 + ((k * 900000) \div RandUnit))

IssuedCodes == {NewVerificationCode(k) : k \in RandSamples}

WrongCode == <<"0", "0", "0", "0", "0", "0">>

\* Codes a caller may submit: every code that can be issued, one that never
\* is, and the empty string.
CodeInputs == IssuedCodes \cup {WrongCode, EmptyStr}

ResetPasswordDtos == [email : Emails, code : CodeInputs, newPassword : Passwords]

-----------------------------------------------------------------------------
(* register *)

RegisterUser(dto, verificationCode) ==
  [id |-> 0,
   username |-> Some(OrElse(dto.username, SplitFirst(dto.fullName, " "))),
   cpf |-> dto.cpf,
   fullName |-> dto.fullName,
   email |-> dto.email,
   phone |-> dto.phone,
   password |-> dto.password,
   verificationCode |-> Some(verificationCode),
   isVerified |-> FALSE,
   isActive |-> FALSE,
   lastLogin |-> NULL,
   googleId |-> NULL,
   picture |-> NULL,
   isGoogleUser |-> FALSE]

\* register from the code generation on: create, save, send the mail.
RegisterWrite(dto, k, mailOk) ==
  LET R(outcome, message) ==
        Reply("register", dto, outcome, message, NoUser, NULL)
      verificationCode == NewVerificationCode(k)
      user == RegisterUser(dto, verificationCode)
  IN IF ~UniqueOk(users, user)
     THEN /\ last' = R("QueryFailed", "unique constraint")
          /\ outbox' = <<>>
          /\ UNCHANGED users
     ELSE /\ users' = SaveRows(users, user)
          /\ outbox' = <<Mail("confirmation", dto.email, verificationCode)>>
          /\ last' = IF mailOk
                     THEN R("ok", "Por favor, verifique seu email para ativar sua conta")
                     ELSE R("MailError", "sendMail failed")

\* Variant: the CPF check runs before the email check.
RegisterConflictSwapped(us, dto) ==
  IF FindByCpf(us, dto.cpf) # 0 THEN "CPF já cadastrado"
  ELSE IF findByEmail(us, dto.email) # 0 THEN "Email já cadastrado"
  ELSE ""

\* Variant: the email pre-check is missing.
RegisterConflictCpfOnly(us, dto) ==
  IF FindByCpf(us, dto.cpf) # 0 THEN "CPF já cadastrado" ELSE ""

\* The two uniqueness pre-checks of register, in the order the code runs
\* them: the message of the ConflictException raised, "" when both pass.
RegisterConflict(us, dto) ==
  IF findByEmail(us, dto.email) # 0 THEN "Email já cadastrado"
  ELSE IF FindByCpf(us, dto.cpf) # 0 THEN "CPF já cadastrado"
  ELSE ""

RegisterDto(dto, k, mailOk) ==
  LET R(outcome, message) ==
        Reply("register", dto, outcome, message, NoUser, NULL)
  IN IF RegisterConflict(users, dto) # ""
     THEN /\ last' = R("Conflict", RegisterConflict(users, dto))
          /\ outbox' = <<>>
          /\ UNCHANGED users
     ELSE RegisterWrite(dto, k, mailOk)

Register ==
  /\ UNCHANGED call
  /\ \E dto \in RegisterDtos, k \in RandSamples, mailOk \in BOOLEAN :
       RegisterDto(dto, k, mailOk)

-----------------------------------------------------------------------------
(* login *)

\* Variant: the isVerified test is missing.
LoginResultIgnoringVerified(us, email) ==
  LET i == findByEmail(us, email)
  IN IF i = 0 THEN [outcome |-> "ok", message |-> "", user |-> NULL]
     ELSE [outcome |-> "ok", message |-> "", user |-> Some(us[i])]

\* The value login returns or the exception it raises, from the row found.
LoginResult(us, email) ==
  LET i == findByEmail(us, email)
  IN IF i = 0 THEN [outcome |-> "ok", message |-> "", user |-> NULL]
     ELSE IF ~us[i].isVerified
     THEN [outcome |-> "Conflict",
           message |-> "Por favor, verifique seu email antes de fazer login",
           user |-> NULL]
     ELSE [outcome |-> "ok", message |-> "", user |-> Some(us[i])]

\* Variant: a password that differs from the stored one is refused.
LoginDtoCheckingPassword(dto) ==
  LET r == LoginResult(users, dto.email)
      wrong == r.user # NULL /\ r.user[1].password # dto.password
  IN /\ last' = IF wrong
                THEN Reply("login", dto, "Unauthorized", "", NoUser, NULL)
                ELSE Reply("login", dto, r.outcome, r.message, r.user, NULL)
     /\ outbox' = <<>>
     /\ UNCHANGED users

LoginDto(dto) ==
  LET r == LoginResult(users, dto.email)
  IN /\ last' = Reply("login", dto, r.outcome, r.message, r.user, NULL)
     /\ outbox' = <<>>
     /\ UNCHANGED users

Login ==
  /\ UNCHANGED call
  /\ \E dto \in LoginDtos : LoginDto(dto)

-----------------------------------------------------------------------------
(* verifyCode *)

\* Variant: isActive is not set.
VerifiedUserKeepInactive(user) ==
  [user EXCEPT !.isVerified = TRUE, !.verificationCode = NULL]

VerifiedUser(user) ==
  [user EXCEPT !.isVerified = TRUE, !.isActive = TRUE, !.verificationCode = NULL]

\* verifyCode from the assignments on, for the entity that was read.
VerifyCodeWrite(email, code, read) ==
  LET R(outcome, message) ==
        Reply("verifyCode", [email |-> email, code |-> code], outcome, message,
              NoUser, NULL)
      user == VerifiedUser(read)
  IN IF ~UniqueOk(users, user)
     THEN /\ last' = R("QueryFailed", "unique constraint")
          /\ outbox' = <<>>
          /\ UNCHANGED users
     ELSE /\ users' = SaveRows(users, user)
          /\ outbox' = <<>>
          /\ last' = R("ok", "Conta ativada com sucesso")

\* Variant: a wrong code for an email that has a row uses the stored code up.
VerifyCodeCallBurnsCode(email, code) ==
  LET R(outcome, message) ==
        Reply("verifyCode", [email |-> email, code |-> code], outcome, message,
              NoUser, NULL)
      i == FindByEmailAndCode(users, email, code)
      e == findByEmail(users, email)
  IN IF i = 0
     THEN /\ last' = R("Conflict", "Código de verificação inválido")
          /\ outbox' = <<>>
          /\ users' = IF e = 0 THEN users
                      ELSE SaveRows(users, [users[e] EXCEPT !.verificationCode = NULL])
     ELSE VerifyCodeWrite(email, code, users[i])

VerifyCodeCall(email, code) ==
  LET R(outcome, message) ==
        Reply("verifyCode", [email |-> email, code |-> code], outcome, message,
              NoUser, NULL)
      i == FindByEmailAndCode(users, email, code)
  IN IF i = 0
     THEN /\ last' = R("Conflict", "Código de verificação inválido")
          /\ outbox' = <<>>
          /\ UNCHANGED users
     ELSE VerifyCodeWrite(email, code, users[i])

VerifyCode ==
  /\ UNCHANGED call
  /\ \E email \in Emails, code \in CodeInputs : VerifyCodeCall(email, code)

-----------------------------------------------------------------------------
(* forgotPassword *)

\* Variant: an unknown email is answered like a known one, mail included.
ForgotUserKeepPending(user, resetCode) ==
  IF user.verificationCode \in {Some(c) : c \in IssuedCodes}
  THEN user
  ELSE [user EXCEPT !.verificationCode = Some(resetCode)]

\* user.verificationCode = resetCode: the new code overwrites the column.
ForgotUser(user, resetCode) ==
  [user EXCEPT !.verificationCode = Some(resetCode)]

\* forgotPassword from the code generation on, for the entity that was read.
ForgotPasswordWrite(email, read, k, mailOk) ==
  LET R(outcome, message) ==
        Reply("forgotPassword", [email |-> email], outcome, message, NoUser, NULL)
      resetCode == NewVerificationCode(k)
      user == ForgotUser(read, resetCode)
  IN IF ~UniqueOk(users, user)
     THEN /\ last' = R("QueryFailed", "unique constraint")
          /\ outbox' = <<>>
          /\ UNCHANGED users
     ELSE /\ users' = SaveRows(users, user)
          /\ outbox' = <<Mail("passwordReset", email, resetCode)>>
          /\ last' = IF mailOk
                     THEN R("ok", "Enviamos um código de recuperação para seu email")
                     ELSE R("MailError", "sendMail failed")

ForgotPasswordCallUnknownOk(email, k, mailOk) ==
  LET R(outcome, message) ==
        Reply("forgotPassword", [email |-> email], outcome, message, NoUser, NULL)
      i == findByEmail(users, email)
      resetCode == NewVerificationCode(k)
  IN /\ users' = IF i = 0 THEN users
                 ELSE SaveRows(users, [users[i] EXCEPT !.verificationCode = Some(resetCode)])
     /\ outbox' = <<Mail("passwordReset", email, resetCode)>>
     /\ last' = IF mailOk
                THEN R("ok", "Enviamos um código de recuperação para seu email")
                ELSE R("MailError", "sendMail failed")

ForgotPasswordCall(email, k, mailOk) ==
  LET R(outcome, message) ==
        Reply("forgotPassword", [email |-> email], outcome, message, NoUser, NULL)
      i == findByEmail(users, email)
  IN IF i = 0
     THEN /\ last' = R("Conflict", "Email não encontrado")
          /\ outbox' = <<>>
          /\ UNCHANGED users
     ELSE ForgotPasswordWrite(email, users[i], k, mailOk)

ForgotPassword ==
  /\ UNCHANGED call
  /\ \E email \in Emails, k \in RandSamples, mailOk \in BOOLEAN :
       ForgotPasswordCall(email, k, mailOk)

-----------------------------------------------------------------------------
(* resetPassword *)

\* Variant: the code is cleared to null, as verifyCode does.
ResetUserNullCode(user, newPassword) ==
  [user EXCEPT !.password = newPassword, !.verificationCode = NULL]

ResetUser(user, newPassword) ==
  [user EXCEPT !.password = newPassword, !.verificationCode = Some(EmptyStr)]

\* resetPassword from the assignments on, for the entity that was read.
ResetPasswordWrite(dto, read) ==
  LET R(outcome, message) ==
        Reply("resetPassword", dto, outcome, message, NoUser, NULL)
      user == ResetUser(read, dto.newPassword)
  IN IF ~UniqueOk(users, user)
     THEN /\ last' = R("QueryFailed", "unique constraint")
          /\ outbox' = <<>>
          /\ UNCHANGED users
     ELSE /\ users' = SaveRows(users, user)
          /\ outbox' = <<>>
          /\ last' = R("ok", "Senha atualizada com sucesso")

ResetPasswordDto(dto) ==
  LET R(outcome, message) ==
        Reply("resetPassword", dto, outcome, message, NoUser, NULL)
      i == FindByEmailAndCode(users, dto.email, dto.code)
  IN IF i = 0
     THEN /\ last' = R("Conflict", "Código inválido")
          /\ outbox' = <<>>
          /\ UNCHANGED users
     ELSE ResetPasswordWrite(dto, users[i])

ResetPassword ==
  /\ UNCHANGED call
  /\ \E dto \in ResetPasswordDtos : ResetPasswordDto(dto)

-----------------------------------------------------------------------------
(* validateGoogleUser *)

\* Variant: a placeholder stands in for a missing email.
ProfileEmailPlaceholder(p) ==
  IF Len(p.emails) > 0 /\ p.emails[1] # EmptyStr THEN p.emails[1]
  ELSE IF p.email # EmptyStr THEN p.email
  ELSE <<"?">>

ProfileEmail(p) ==
  IF Len(p.emails) > 0 THEN p.emails[1]
  ELSE IF p.email # EmptyStr THEN p.email
  ELSE EmptyStr

ProfileFullName(p) ==
  IF p.hasName THEN Trim(p.givenName \o <<" ">> \o p.familyName)
  ELSE IF p.fullName # EmptyStr THEN p.fullName
  ELSE EmptyStr

ProfilePicture(p) ==
  IF Len(p.photos) > 0 THEN p.photos[1]
  ELSE IF p.picture # EmptyStr THEN p.picture
  ELSE EmptyStr

\* Variant: the profile's id replaces the stored one.
MergedGoogleUserLastIdWins(user, picture, googleId, now) ==
  [user EXCEPT !.lastLogin = Some(now),
               !.picture = OrElseColumn(picture, user.picture),
               !.isGoogleUser = TRUE,
               !.googleId = Some(googleId)]

\* Variant: the profile's picture replaces the stored one even when empty.
MergedGoogleUserAnyPicture(user, picture, googleId, now) ==
  [user EXCEPT !.lastLogin = Some(now),
               !.picture = Some(picture),
               !.isGoogleUser = TRUE,
               !.googleId = ColumnOrElse(user.googleId, googleId)]

\* Variant: signing in with Google verifies and activates the account.
MergedGoogleUserVerifies(user, picture, googleId, now) ==
  [user EXCEPT !.lastLogin = Some(now),
               !.picture = OrElseColumn(picture, user.picture),
               !.isGoogleUser = TRUE,
               !.googleId = ColumnOrElse(user.googleId, googleId),
               !.isVerified = TRUE,
               !.isActive = TRUE]

\* Variant: signing in with Google drops the pending code.
MergedGoogleUserClearsCode(user, picture, googleId, now) ==
  [user EXCEPT !.lastLogin = Some(now),
               !.picture = OrElseColumn(picture, user.picture),
               !.isGoogleUser = TRUE,
               !.googleId = ColumnOrElse(user.googleId, googleId),
               !.verificationCode = NULL]

MergedGoogleUser(user, picture, googleId, now) ==
  [user EXCEPT !.lastLogin = Some(now),
               !.picture = OrElseColumn(picture, user.picture),
               !.isGoogleUser = TRUE,
               !.googleId = ColumnOrElse(user.googleId, googleId)]

NewGoogleUser(email, fullName, picture, googleId, now) ==
  [id |-> 0,
   username |-> Some(SplitFirst(email, "@")),
   cpf |-> EmptyStr,
   fullName |-> fullName,
   email |-> email,
   phone |-> EmptyStr,
   password |-> EmptyStr,
   verificationCode |-> NULL,
   isVerified |-> TRUE,
   isActive |-> TRUE,
   lastLogin |-> Some(now),
   googleId |-> Some(googleId),
   picture |-> Some(picture),
   isGoogleUser |-> TRUE]

\* Variant: the token does not carry the flag.
AccessTokenWithoutFlag(user) ==
  Some([sub |-> user.id, email |-> user.email, isGoogleUser |-> FALSE])

AccessToken(user) == Some([sub |-> user.id, email |-> user.email, isGoogleUser |-> TRUE])

GoogleUserView(user) ==
  Some([id |-> user.id, email |-> user.email, fullName |-> user.fullName,
        username |-> user.username, picture |-> user.picture, cpf |-> user.cpf,
        phone |-> user.phone])

\* The existing-account branch from the save on, for the entity that was read.
ValidateGoogleUserMerge(googleProfile, read, now) ==
  LET R(outcome, message, user, token) ==
        Reply("validateGoogleUser", googleProfile, outcome, message, user, token)
      user == MergedGoogleUser(read, ProfilePicture(googleProfile), googleProfile.id, now)
  IN IF ~UniqueOk(users, user)
     THEN /\ last' = R("QueryFailed", "unique constraint", NoUser, NULL)
          /\ outbox' = <<>>
          /\ UNCHANGED users
     ELSE /\ users' = SaveRows(users, user)
          /\ outbox' = <<>>
          /\ last' = R("ok", "", GoogleUserView(user), AccessToken(user))

\* The new-account branch from the save on.
\* Variant: the welcome mail is sent before the save, so also when the save
\* is rejected.
ValidateGoogleUserCreateMailFirst(googleProfile, now, mailOk) ==
  LET R(outcome, message, user, token) ==
        Reply("validateGoogleUser", googleProfile, outcome, message, user, token)
      email == ProfileEmail(googleProfile)
      user == NewGoogleUser(email, ProfileFullName(googleProfile),
                            ProfilePicture(googleProfile), googleProfile.id, now)
  IN IF ~UniqueOk(users, user)
     THEN /\ last' = R("QueryFailed", "unique constraint", NoUser, NULL)
          /\ outbox' = <<Mail("googleWelcome", email, EmptyStr)>>
          /\ UNCHANGED users
     ELSE LET saved == SaveRows(users, user)[Len(users) + 1]
          IN /\ users' = SaveRows(users, user)
             /\ outbox' = <<Mail("googleWelcome", email, EmptyStr)>>
             /\ last' = IF mailOk
                        THEN R("ok", "", GoogleUserView(saved), AccessToken(saved))
                        ELSE R("MailError", "sendMail failed", NoUser, NULL)

ValidateGoogleUserCreate(googleProfile, now, mailOk) ==
  LET R(outcome, message, user, token) ==
        Reply("validateGoogleUser", googleProfile, outcome, message, user, token)
      email == ProfileEmail(googleProfile)
      user == NewGoogleUser(email, ProfileFullName(googleProfile),
                            ProfilePicture(googleProfile), googleProfile.id, now)
  IN IF ~UniqueOk(users, user)
     THEN /\ last' = R("QueryFailed", "unique constraint", NoUser, NULL)
          /\ outbox' = <<>>
          /\ UNCHANGED users
     ELSE LET saved == SaveRows(users, user)[Len(users) + 1]
          IN /\ users' = SaveRows(users, user)
             /\ outbox' = <<Mail("googleWelcome", email, EmptyStr)>>
             /\ last' = IF mailOk
                        THEN R("ok", "", GoogleUserView(saved), AccessToken(saved))
                        ELSE R("MailError", "sendMail failed", NoUser, NULL)

ValidateGoogleUserCall(googleProfile, now, mailOk) ==
  LET email == ProfileEmail(googleProfile)
      R(outcome, message, user, token) ==
        Reply("validateGoogleUser", googleProfile, outcome, message, user, token)
      i == findByEmail(users, email)
  IN IF email = EmptyStr
     THEN /\ last' = R("Error", "Email not provided in Google profile", NoUser, NULL)
          /\ outbox' = <<>>
          /\ UNCHANGED users
     ELSE IF i # 0
     THEN ValidateGoogleUserMerge(googleProfile, users[i], now)
     ELSE ValidateGoogleUserCreate(googleProfile, now, mailOk)

ValidateGoogleUser ==
  /\ UNCHANGED call
  /\ \E googleProfile \in GoogleProfiles, now \in Times, mailOk \in BOOLEAN :
       ValidateGoogleUserCall(googleProfile, now, mailOk)

\* Profiles of every shape validateGoogleUser reads: passport's (emails,
\* name and photos lists, id), the flat one GoogleStrategy.validate builds
\* (email, fullName, picture, no id), one without any email, and one whose
\* emails entry is empty although a flat email is present.
GoogleIdB == <<"g", "2">>

PictureA == <<"u", "1">>

PictureB == <<"u", "2">>

OAuthProfiles ==
  {GoogleProfile(<<e>>, EmptyStr, TRUE, <<"A", "n", "a">>, <<"L", "i", "m", "a">>,
                 EmptyStr, <<PictureA>>, EmptyStr, GoogleIdA) : e \in Emails}
  \cup {GoogleProfile(<<e>>, EmptyStr, TRUE, <<"A", "n", "a">>, EmptyStr,
                      EmptyStr, <<>>, EmptyStr, GoogleIdB) : e \in Emails}
  \cup {GoogleProfile(<<>>, e, FALSE, EmptyStr, EmptyStr, <<"A", "n", " ", "L">>,
                      <<>>, PictureB, EmptyStr) : e \in Emails}
  \cup {GoogleProfile(<<>>, EmptyStr, FALSE, EmptyStr, EmptyStr, <<"A", "n", "a">>,
                      <<PictureA>>, EmptyStr, GoogleIdA),
        GoogleProfile(<<EmptyStr>>, EmailA, FALSE, EmptyStr, EmptyStr, EmptyStr,
                      <<>>, EmptyStr, GoogleIdB)}

\* GET /auth/google/callback: validateGoogleUser(req.user).
GoogleAuthRedirect ==
  /\ UNCHANGED call
  /\ \E googleProfile \in OAuthProfiles, now \in Times, mailOk \in BOOLEAN :
       ValidateGoogleUserCall(googleProfile, now, mailOk)

\* The body of POST /auth/update-google-data.
PreRegisterGoogleDtos == [cpf : Cpfs, phone : Phones]

UpdatedUserView(user) ==
  Some([id |-> user.id, email |-> user.email, fullName |-> user.fullName,
        cpf |-> user.cpf, phone |-> user.phone])

\* updateGoogleData from the assignments on, for the entity that was read.
UpdateGoogleDataWrite(email, preRegisterDto, read) ==
  LET R(outcome, message, user) ==
        Reply("updateGoogleData", [email |-> email, dto |-> preRegisterDto],
              outcome, message, user, NULL)
      user == [read EXCEPT !.cpf = preRegisterDto.cpf, !.phone = preRegisterDto.phone]
  IN IF ~UniqueOk(users, user)
     THEN /\ last' = R("QueryFailed", "unique constraint", NoUser)
          /\ outbox' = <<>>
          /\ UNCHANGED users
     ELSE /\ users' = SaveRows(users, user)
          /\ outbox' = <<>>
          /\ last' = R("ok", "Datos actualizados correctamente", UpdatedUserView(user))

UpdateGoogleDataUnknownOk(email, preRegisterDto) ==
  LET R(outcome, message, user) ==
        Reply("updateGoogleData", [email |-> email, dto |-> preRegisterDto],
              outcome, message, user, NULL)
      i == findByEmail(users, email)
      created == [NewGoogleUser(email, EmptyStr, EmptyStr, EmptyStr, 1)
                    EXCEPT !.cpf = preRegisterDto.cpf, !.phone = preRegisterDto.phone]
      user == IF i = 0 THEN created
              ELSE [users[i] EXCEPT !.cpf = preRegisterDto.cpf, !.phone = preRegisterDto.phone]
  IN IF ~UniqueOk(users, user)
     THEN /\ last' = R("Conflict", "CPF já cadastrado", NoUser)
          /\ outbox' = <<>>
          /\ UNCHANGED users
     ELSE /\ users' = SaveRows(users, user)
          /\ outbox' = <<>>
          /\ last' = R("ok", "Datos actualizados correctamente", UpdatedUserView(user))

\* Variant: the CPF is not looked up before the save.
UpdateGoogleDataNoCpfCheck(email, preRegisterDto) ==
  LET R(outcome, message, user) ==
        Reply("updateGoogleData", [email |-> email, dto |-> preRegisterDto],
              outcome, message, user, NULL)
      i == findByEmail(users, email)
  IN IF i = 0
     THEN /\ last' = R("NotFound", "Usuario no encontrado", NoUser)
          /\ outbox' = <<>>
          /\ UNCHANGED users
     ELSE LET user == [users[i] EXCEPT !.cpf = preRegisterDto.cpf,
                                       !.phone = preRegisterDto.phone]
          IN IF ~UniqueOk(users, user)
             THEN /\ last' = R("QueryFailed", "unique constraint", NoUser)
                  /\ outbox' = <<>>
                  /\ UNCHANGED users
             ELSE /\ users' = SaveRows(users, user)
                  /\ outbox' = <<>>
                  /\ last' = R("ok", "Datos actualizados correctamente",
                               UpdatedUserView(user))

UpdateGoogleDataCall(email, preRegisterDto) ==
  LET R(outcome, message, user) ==
        Reply("updateGoogleData", [email |-> email, dto |-> preRegisterDto],
              outcome, message, user, NULL)
      i == findByEmail(users, email)
  IN IF i = 0
     THEN /\ last' = R("NotFound", "Usuario no encontrado", NoUser)
          /\ outbox' = <<>>
          /\ UNCHANGED users
     ELSE LET existingCPF == FindByCpf(users, preRegisterDto.cpf)
          IN IF /\ preRegisterDto.cpf # users[i].cpf
                /\ existingCPF # 0
                /\ users[existingCPF].id # users[i].id
             THEN /\ last' = R("Conflict", "CPF já cadastrado", NoUser)
                  /\ outbox' = <<>>
                  /\ UNCHANGED users
             ELSE UpdateGoogleDataWrite(email, preRegisterDto, users[i])

UpdateGoogleData ==
  /\ UNCHANGED call
  /\ \E email \in Emails, preRegisterDto \in PreRegisterGoogleDtos :
       UpdateGoogleDataCall(email, preRegisterDto)

\* register with one password and code, the mail delivered.
RegisterPlainDtos ==
  [email : Emails, password : {<<"p">>}, cpf : Cpfs, fullName : FullNames,
   phone : Phones, username : Usernames]

RegisterPlain ==
  /\ UNCHANGED call
  /\ \E dto \in RegisterPlainDtos : RegisterDto(dto, 0, TRUE)

-----------------------------------------------------------------------------

(* googleLogin.  The handler is modelled await by await: the lookup that
   starts it, one step per iteration of each generator loop, and the save.
   Other calls run between its steps. *)

\* const maxAttempts = 10, in both generators.
maxAttempts == 10

\* s.padStart(n, ch)
RECURSIVE PadStart(_, _, _)
PadStart(s, n, ch) ==
  IF Len(s) >= n THEN s ELSE PadStart(<<ch>> \o s, n, ch)

\* Math.floor(Math.random() * n) for the draw k / RandUnit.
RandomInt(k, n) == (k * n) \div RandUnit

\* The candidate CPF built from four draws: three groups of three digits
\* and one of two, each padded with zeros.
GeneratedCpf(k1, k2, k3, k4) ==
  PadStart(NumberToString(RandomInt(k1, 1000)), 3, "0")
    \o PadStart(NumberToString(RandomInt(k2, 1000)), 3, "0")
    \o PadStart(NumberToString(RandomInt(k3, 1000)), 3, "0")
    \o PadStart(NumberToString(RandomInt(k4, 100)), 2, "0")

\* `+55${Math.floor(10000000000 + Math.random() * 90000000000)}`, computed
\* in units of 10^6 to stay within 32 bits: for a draw in thousandths the
\* number is (10000 + 90000 * r) * 10^6, so its last six digits are zeros.
GeneratedPhone(k) ==
  <<"+", "5", "5">> \o NumberToString(10000 + RandomInt(k, 90000))
    \o <<"0", "0", "0", "0", "0", "0">>

\* The draws of one candidate CPF that are explored: the four calls of
\* Math.random() return the same sample.
CpfDraws == {<<k, k, k, k>> : k \in RandSamples}

GeneratedCpfs == {GeneratedCpf(d[1], d[2], d[3], d[4]) : d \in CpfDraws}

GeneratedPhones == {GeneratedPhone(k) : k \in RandSamples}

\* Math.random().toString(36).slice(-8): a random string, opaque here.
TemporaryPasswords == {<<"t", "m", "p">>}

FindByPhone(us, phone) ==
  FindOne({i \in 1..Len(us) : us[i].phone = phone})

\* req.user as GoogleStrategy.validate builds it, or no user.
GoogleRequests ==
  {[user |-> NULL]}
    \cup {[user |-> Some([email |-> e, fullName |-> f])] : e \in Emails, f \in FullNames}

\* The suspended handler: pc is the await it resumes from; req is what it
\* was called with and user the entity it read (of any handler); password is
\* googleLogin's local; attempts is the running generator's counter;
\* cpfLookups and phoneLookups count the findOne calls each generator has
\* made; candidate and existing are the last lookup and its answer; cpf and
\* phone are the values the generators returned.
Call(pc, req, user, password, attempts, cpfLookups, phoneLookups, candidate, existing, cpf, phone) ==
  [pc |-> pc, req |-> req, user |-> user, password |-> password, attempts |-> attempts,
   cpfLookups |-> cpfLookups, phoneLookups |-> phoneLookups,
   candidate |-> candidate, existing |-> existing, cpf |-> cpf, phone |-> phone]

\* No handler is suspended.
Idle ==
  Call("idle", [user |-> NULL], NoUser, EmptyStr, 0, 0, 0, EmptyStr, FALSE, EmptyStr, EmptyStr)

\* userRepository.create({...}) in googleLogin.
\* Variant: the row is created unverified, as register creates it.
LegacyGoogleUserUnverified(reqUser, cpf, phone, password, now) ==
  [id |-> 0,
   username |-> Some(SplitFirst(reqUser.email, "@")),
   cpf |-> cpf,
   fullName |-> reqUser.fullName,
   email |-> reqUser.email,
   phone |-> phone,
   password |-> password,
   verificationCode |-> NULL,
   isVerified |-> FALSE,
   isActive |-> TRUE,
   lastLogin |-> Some(now),
   googleId |-> NULL,
   picture |-> NULL,
   isGoogleUser |-> FALSE]

LegacyGoogleUser(reqUser, cpf, phone, password, now) ==
  [id |-> 0,
   username |-> Some(SplitFirst(reqUser.email, "@")),
   cpf |-> cpf,
   fullName |-> reqUser.fullName,
   email |-> reqUser.email,
   phone |-> phone,
   password |-> password,
   verificationCode |-> NULL,
   isVerified |-> TRUE,
   isActive |-> TRUE,
   lastLogin |-> Some(now),
   googleId |-> NULL,
   picture |-> NULL,
   isGoogleUser |-> FALSE]

LegacyUserView(user) ==
  Some([id |-> user.id, email |-> user.email, fullName |-> user.fullName,
        username |-> user.username, isVerified |-> user.isVerified,
        isActive |-> user.isActive])

\* 'Bienvenido a Smart Buffet', passed where the code goes.
WelcomeText ==
  <<"B", "i", "e", "n", "v", "e", "n", "i", "d", "o", " ", "a", " ",
    "S", "m", "a", "r", "t", " ", "B", "u", "f", "f", "e", "t">>

\* The known-email branch from the assignment on, for the entity that was
\* read.
GoogleLoginTouch(req, read, now) ==
  LET R(outcome, message, user) == Reply("googleLogin", req, outcome, message, user, NULL)
      user == [read EXCEPT !.lastLogin = Some(now)]
  IN IF ~UniqueOk(users, user)
     THEN /\ last' = R("QueryFailed", "unique constraint", NoUser)
          /\ outbox' = <<>>
          /\ UNCHANGED users
     ELSE /\ users' = SaveRows(users, user)
          /\ outbox' = <<>>
          /\ last' = R("ok", "", LegacyUserView(user))

\* From the entry to the first generator, or to the end for a known email.
GoogleLoginReq(req, now, temporaryPassword) ==
  LET R(outcome, message, user) == Reply("googleLogin", req, outcome, message, user, NULL)
  IN /\ call.pc = "idle"
     /\ IF req.user = NULL
        THEN /\ last' = R("NoGoogleUser", "No se encontró usuario de Google", NoUser)
             /\ outbox' = <<>>
             /\ UNCHANGED <<users, call>>
        ELSE LET i == findByEmail(users, req.user[1].email)
             IN IF i = 0
                THEN /\ call' = [Idle EXCEPT !.pc = "generateUniqueCpf", !.req = req,
                                             !.password = temporaryPassword]
                     /\ UNCHANGED <<users, outbox, last>>
                ELSE /\ GoogleLoginTouch(req, users[i], now)
                     /\ UNCHANGED call

GoogleLogin ==
  \E req \in GoogleRequests, now \in Times, temporaryPassword \in TemporaryPasswords :
    GoogleLoginReq(req, now, temporaryPassword)

LoopContinuesInclusive(attempts) == attempts <= maxAttempts

\* while (attempts < maxAttempts)
LoopContinues(attempts) == attempts < maxAttempts

\* Variant: a candidate is returned when its lookup found a record.
ReturnsCandidateWhenExisting(existing) == existing

\* if (!existingUser) return candidate
ReturnsCandidate(existing) == ~existing

\* One iteration of generateUniqueCpf, or its throw when the loop ends.
\* Variant: when the loop ends the last candidate is used instead of raising.
GenerateUniqueCpfStepFallback(d) ==
  /\ call.pc = "generateUniqueCpf"
  /\ IF LoopContinues(call.attempts)
     THEN LET cpf == GeneratedCpf(d[1], d[2], d[3], d[4])
              existing == FindByCpf(users, cpf) # 0
          IN /\ call' = IF ReturnsCandidate(existing)
                        THEN [call EXCEPT !.pc = "generateUniquePhone", !.attempts = 0,
                                          !.cpfLookups = @ + 1, !.candidate = cpf,
                                          !.existing = existing, !.cpf = cpf]
                        ELSE [call EXCEPT !.attempts = @ + 1, !.cpfLookups = @ + 1,
                                          !.candidate = cpf, !.existing = existing]
             /\ UNCHANGED <<users, outbox, last>>
     ELSE /\ call' = [call EXCEPT !.pc = "generateUniquePhone", !.attempts = 0,
                                  !.cpf = call.candidate]
          /\ UNCHANGED <<users, outbox, last>>

GenerateUniqueCpfStep(d) ==
  /\ call.pc = "generateUniqueCpf"
  /\ IF LoopContinues(call.attempts)
     THEN LET cpf == GeneratedCpf(d[1], d[2], d[3], d[4])
              existing == FindByCpf(users, cpf) # 0
          IN /\ call' = IF ReturnsCandidate(existing)
                        THEN [call EXCEPT !.pc = "generateUniquePhone", !.attempts = 0,
                                          !.cpfLookups = @ + 1, !.candidate = cpf,
                                          !.existing = existing, !.cpf = cpf]
                        ELSE [call EXCEPT !.attempts = @ + 1, !.cpfLookups = @ + 1,
                                          !.candidate = cpf, !.existing = existing]
             /\ UNCHANGED <<users, outbox, last>>
     ELSE /\ last' = Reply("googleLogin", call.req, "Conflict",
                           "No se pudo generar un CPF único después de varios intentos",
                           NoUser, NULL)
          /\ outbox' = <<>>
          /\ call' = Idle
          /\ UNCHANGED users

GenerateUniqueCpf == \E d \in CpfDraws : GenerateUniqueCpfStep(d)

\* One iteration of generateUniquePhone, or its throw when the loop ends.
GenerateUniquePhoneStep(k) ==
  /\ call.pc = "generateUniquePhone"
  /\ IF LoopContinues(call.attempts)
     THEN LET phone == GeneratedPhone(k)
              existing == FindByPhone(users, phone) # 0
          IN /\ call' = IF ReturnsCandidate(existing)
                        THEN [call EXCEPT !.pc = "save", !.attempts = 0,
                                          !.phoneLookups = @ + 1, !.candidate = phone,
                                          !.existing = existing, !.phone = phone]
                        ELSE [call EXCEPT !.attempts = @ + 1, !.phoneLookups = @ + 1,
                                          !.candidate = phone, !.existing = existing]
             /\ UNCHANGED <<users, outbox, last>>
     ELSE /\ last' = Reply("googleLogin", call.req, "Conflict",
                           "No se pudo generar un teléfono único después de varios intentos",
                           NoUser, NULL)
          /\ outbox' = <<>>
          /\ call' = Idle
          /\ UNCHANGED users

GenerateUniquePhone == \E k \in RandSamples : GenerateUniquePhoneStep(k)

\* create, then save and the welcome mail inside the try: any error of
\* either becomes Conflict('Error al crear usuario'); a row that was saved
\* before the mail failed stays.
\* Variant: a failed welcome mail takes the new row back.
GoogleLoginSaveAtRollback(now, mailOk) ==
  LET R(outcome, message, user) ==
        Reply("googleLogin", call.req, outcome, message, user, NULL)
      user == LegacyGoogleUser(call.req.user[1], call.cpf, call.phone, call.password, now)
  IN /\ call.pc = "save"
     /\ call' = Idle
     /\ IF ~UniqueOk(users, user)
        THEN /\ last' = R("Conflict", "Error al crear usuario", NoUser)
             /\ outbox' = <<>>
             /\ UNCHANGED users
        ELSE LET saved == SaveRows(users, user)[Len(users) + 1]
             IN /\ users' = IF mailOk THEN SaveRows(users, user) ELSE users
                /\ outbox' = <<Mail("confirmation", saved.email, WelcomeText)>>
                /\ last' = IF mailOk
                           THEN R("ok", "", LegacyUserView(saved))
                           ELSE R("Conflict", "Error al crear usuario", NoUser)

GoogleLoginSaveAt(now, mailOk) ==
  LET R(outcome, message, user) ==
        Reply("googleLogin", call.req, outcome, message, user, NULL)
      user == LegacyGoogleUser(call.req.user[1], call.cpf, call.phone, call.password, now)
  IN /\ call.pc = "save"
     /\ call' = Idle
     /\ IF ~UniqueOk(users, user)
        THEN /\ last' = R("Conflict", "Error al crear usuario", NoUser)
             /\ outbox' = <<>>
             /\ UNCHANGED users
        ELSE LET saved == SaveRows(users, user)[Len(users) + 1]
             IN /\ users' = SaveRows(users, user)
                /\ outbox' = <<Mail("confirmation", saved.email, WelcomeText)>>
                /\ last' = IF mailOk
                           THEN R("ok", "", LegacyUserView(saved))
                           ELSE R("Conflict", "Error al crear usuario", NoUser)

GoogleLoginSave == \E now \in Times, mailOk \in BOOLEAN : GoogleLoginSaveAt(now, mailOk)

\* register with a CPF and a phone the generators can draw.
RegisterGeneratedDtos ==
  [email : Emails, password : {<<"p">>}, cpf : {GeneratedCpf(0, 0, 0, 0)},
   fullName : FullNames, phone : {GeneratedPhone(0)}, username : Usernames]

RegisterGenerated ==
  /\ UNCHANGED call
  /\ \E dto \in RegisterGeneratedDtos : RegisterDto(dto, 0, TRUE)

-----------------------------------------------------------------------------
(* The other handlers, suspended at the await of their save.  Every handler
   awaits its lookups and then its save, so another request can run in
   between.  A ...Begin action is the handler up to that await, when its
   checks passed; the ...End action is the rest of it, for the entity it read
   then.  The calls that fail their checks, and the calls nothing interrupts,
   are the one-step actions above.  One handler is suspended at a time. *)

Suspended(pc, req, user) == [Idle EXCEPT !.pc = pc, !.req = req, !.user = user]

RegisterBegin(dto) ==
  /\ call.pc = "idle"
  /\ RegisterConflict(users, dto) = ""
  /\ call' = Suspended("registerSave", dto, NoUser)
  /\ UNCHANGED <<users, outbox, last>>

RegisterEnd(k, mailOk) ==
  /\ call.pc = "registerSave"
  /\ RegisterWrite(call.req, k, mailOk)
  /\ call' = Idle

VerifyCodeBegin(email, code) ==
  LET i == FindByEmailAndCode(users, email, code)
  IN /\ call.pc = "idle"
     /\ i # 0
     /\ call' = Suspended("verifyCodeSave", [email |-> email, code |-> code], Some(users[i]))
     /\ UNCHANGED <<users, outbox, last>>

VerifyCodeEnd ==
  /\ call.pc = "verifyCodeSave"
  /\ VerifyCodeWrite(call.req.email, call.req.code, call.user[1])
  /\ call' = Idle

ForgotPasswordBegin(email) ==
  LET i == findByEmail(users, email)
  IN /\ call.pc = "idle"
     /\ i # 0
     /\ call' = Suspended("forgotPasswordSave", [email |-> email], Some(users[i]))
     /\ UNCHANGED <<users, outbox, last>>

ForgotPasswordEnd(k, mailOk) ==
  /\ call.pc = "forgotPasswordSave"
  /\ ForgotPasswordWrite(call.req.email, call.user[1], k, mailOk)
  /\ call' = Idle

ResetPasswordBegin(dto) ==
  LET i == FindByEmailAndCode(users, dto.email, dto.code)
  IN /\ call.pc = "idle"
     /\ i # 0
     /\ call' = Suspended("resetPasswordSave", dto, Some(users[i]))
     /\ UNCHANGED <<users, outbox, last>>

ResetPasswordEnd ==
  /\ call.pc = "resetPasswordSave"
  /\ ResetPasswordWrite(call.req, call.user[1])
  /\ call' = Idle

\* user is the row findOne returned, or no user on the way to the creation.
ValidateGoogleUserBegin(googleProfile) ==
  LET i == findByEmail(users, ProfileEmail(googleProfile))
  IN /\ call.pc = "idle"
     /\ ProfileEmail(googleProfile) # EmptyStr
     /\ call' = Suspended("validateGoogleUserSave", googleProfile,
                          IF i # 0 THEN Some(users[i]) ELSE NoUser)
     /\ UNCHANGED <<users, outbox, last>>

ValidateGoogleUserEnd(now, mailOk) ==
  /\ call.pc = "validateGoogleUserSave"
  /\ IF call.user # NoUser
     THEN ValidateGoogleUserMerge(call.req, call.user[1], now)
     ELSE ValidateGoogleUserCreate(call.req, now, mailOk)
  /\ call' = Idle

UpdateGoogleDataBegin(email, preRegisterDto) ==
  LET i == findByEmail(users, email)
      existingCPF == FindByCpf(users, preRegisterDto.cpf)
  IN /\ call.pc = "idle"
     /\ i # 0
     /\ ~(/\ preRegisterDto.cpf # users[i].cpf
          /\ existingCPF # 0
          /\ users[existingCPF].id # users[i].id)
     /\ call' = Suspended("updateGoogleDataSave",
                          [email |-> email, dto |-> preRegisterDto], Some(users[i]))
     /\ UNCHANGED <<users, outbox, last>>

UpdateGoogleDataEnd ==
  /\ call.pc = "updateGoogleDataSave"
  /\ UpdateGoogleDataWrite(call.req.email, call.req.dto, call.user[1])
  /\ call' = Idle

\* googleLogin for a known email, suspended before it saves lastLogin.
GoogleLoginKnownBegin(req) ==
  LET i == findByEmail(users, req.user[1].email)
  IN /\ call.pc = "idle"
     /\ req.user # NULL
     /\ i # 0
     /\ call' = Suspended("googleLoginTouch", req, Some(users[i]))
     /\ UNCHANGED <<users, outbox, last>>

GoogleLoginKnownEnd(now) ==
  /\ call.pc = "googleLoginTouch"
  /\ GoogleLoginTouch(call.req, call.user[1], now)
  /\ call' = Idle

\* register with a CPF updateGoogleData can ask for, or one the generator
\* can draw.
CreateDtos ==
  [email : Emails, password : {<<"p">>}, cpf : {CpfA, GeneratedCpf(0, 0, 0, 0)},
   fullName : FullNames, phone : Phones, username : Usernames]

\* googleLogin for one of the emails.
GoogleLoginOne ==
  \E req \in GoogleRequests, now \in Times, temporaryPassword \in TemporaryPasswords :
    /\ req.user # NULL
    /\ req.user[1].email = EmailB
    /\ GoogleLoginReq(req, now, temporaryPassword)

\* In the actions below every mail is delivered and the code drawn is the
\* lowest one.
RegisterCreate ==
  /\ UNCHANGED call
  /\ \E dto \in CreateDtos : RegisterDto(dto, 0, TRUE)

RegisterSuspend == \E dto \in CreateDtos : RegisterBegin(dto)

RegisterResume == RegisterEnd(0, TRUE)

ValidateGoogleUserDelivered ==
  /\ UNCHANGED call
  /\ \E googleProfile \in GoogleProfiles, now \in Times :
       ValidateGoogleUserCall(googleProfile, now, TRUE)

ValidateGoogleUserSuspend ==
  \E googleProfile \in GoogleProfiles : ValidateGoogleUserBegin(googleProfile)

ValidateGoogleUserResume == \E now \in Times : ValidateGoogleUserEnd(now, TRUE)

\* updateGoogleData asking for the CPF a registration can hold.
CompletionDtos == [cpf : {CpfA}, phone : Phones]

UpdateGoogleDataCompletion ==
  /\ UNCHANGED call
  /\ \E email \in Emails, preRegisterDto \in CompletionDtos :
       UpdateGoogleDataCall(email, preRegisterDto)

UpdateGoogleDataSuspend ==
  \E email \in Emails, preRegisterDto \in CompletionDtos :
    UpdateGoogleDataBegin(email, preRegisterDto)

UpdateGoogleDataResume == UpdateGoogleDataEnd

Init ==
  /\ users = <<>>
  /\ outbox = <<>>
  /\ last = Reply("init", <<>>, "ok", "", NoUser, NULL)
  /\ call = Idle

Next ==
  \/ Register
  \/ Login
  \/ VerifyCode
  \/ ForgotPassword
  \/ ResetPassword

Spec == Init /\ [][Next]_vars

\* The password track together with OAuth reconciliation.
NextOAuth ==
  \/ Next
  \/ ValidateGoogleUser

SpecOAuth == Init /\ [][NextOAuth]_vars

\* OAuth reconciliation and deferred completion over accounts of both
\* origins.
NextReconcile ==
  \/ RegisterPlain
  \/ GoogleAuthRedirect
  \/ UpdateGoogleData

SpecReconcile == Init /\ [][NextReconcile]_vars

\* The creating operations and the profile completion, each of them run
\* in one piece or suspended before its save while the others run.
NextCreate ==
  \/ RegisterCreate
  \/ RegisterSuspend
  \/ RegisterResume
  \/ ValidateGoogleUserDelivered
  \/ ValidateGoogleUserSuspend
  \/ ValidateGoogleUserResume
  \/ GoogleLoginOne
  \/ GenerateUniqueCpf
  \/ GenerateUniquePhone
  \/ GoogleLoginSave
  \/ UpdateGoogleDataCompletion
  \/ UpdateGoogleDataSuspend
  \/ UpdateGoogleDataResume

SpecCreate == Init /\ [][NextCreate]_vars

\* The legacy Google login, with registrations running between its steps.
NextLegacy ==
  \/ GoogleLogin
  \/ GenerateUniqueCpf
  \/ GenerateUniquePhone
  \/ GoogleLoginSave
  \/ RegisterGenerated

SpecLegacy == Init /\ [][NextLegacy]_vars

\* The operations that send a mail after their save, each mail delivered or
\* failing; register and forgotPassword draw the lowest code.
NextNotify ==
  \/ /\ UNCHANGED call
     /\ \E dto \in RegisterPlainDtos, mailOk \in BOOLEAN : RegisterDto(dto, 0, mailOk)
  \/ /\ UNCHANGED call
     /\ \E email \in Emails, mailOk \in BOOLEAN : ForgotPasswordCall(email, 0, mailOk)
  \/ ValidateGoogleUser
  \/ GoogleLoginOne
  \/ GenerateUniqueCpf
  \/ GenerateUniquePhone
  \/ GoogleLoginSave

SpecNotify == Init /\ [][NextNotify]_vars

\* The operations on one account, each of them run in one piece or suspended
\* between its lookup and its save while the others run.  Mails are
\* delivered; register draws the lowest code and forgotPassword the highest.
NextRace ==
  \/ /\ UNCHANGED call
     /\ \E dto \in CreateDtos :
          dto.email = EmailA /\ dto.cpf = CpfA /\ RegisterDto(dto, 0, TRUE)
  \/ /\ UNCHANGED call
     /\ \E code \in CodeInputs : VerifyCodeCall(EmailA, code)
  \/ /\ UNCHANGED call
     /\ ForgotPasswordCall(EmailA, RandUnit - 1, TRUE)
  \/ /\ UNCHANGED call
     /\ \E dto \in ResetPasswordDtos : dto.email = EmailA /\ ResetPasswordDto(dto)
  \/ /\ UNCHANGED call
     /\ \E preRegisterDto \in CompletionDtos :
          UpdateGoogleDataCall(EmailA, preRegisterDto)
  \/ /\ UNCHANGED call
     /\ \E googleProfile \in GoogleProfiles, now \in Times :
          /\ ProfileEmail(googleProfile) = EmailA
          /\ ValidateGoogleUserCall(googleProfile, now, TRUE)
  \/ \E code \in CodeInputs : VerifyCodeBegin(EmailA, code)
  \/ VerifyCodeEnd
  \/ ForgotPasswordBegin(EmailA)
  \/ ForgotPasswordEnd(RandUnit - 1, TRUE)
  \/ \E dto \in ResetPasswordDtos : dto.email = EmailA /\ ResetPasswordBegin(dto)
  \/ ResetPasswordEnd
  \/ \E preRegisterDto \in CompletionDtos :
       UpdateGoogleDataBegin(EmailA, preRegisterDto)
  \/ UpdateGoogleDataEnd
  \/ \E req \in GoogleRequests :
       /\ req.user # NULL
       /\ req.user[1].email = EmailA
       /\ GoogleLoginKnownBegin(req)
  \/ \E now \in Times : GoogleLoginKnownEnd(now)
  \/ \E googleProfile \in GoogleProfiles :
       /\ ProfileEmail(googleProfile) = EmailA
       /\ ValidateGoogleUserBegin(googleProfile)
  \/ \E now \in Times : ValidateGoogleUserEnd(now, TRUE)

SpecRace == Init /\ [][NextRace]_vars

\* Every operation on the accounts, one call after another.  Mails are
\* delivered, register draws the lowest code and forgotPassword the highest,
\* login tries one password, resetPassword sets one, and googleLogin is
\* called for emails that have a row.
NextLifecycle ==
  \/ /\ UNCHANGED call
     /\ \E dto \in CreateDtos : dto.cpf = CpfA /\ RegisterDto(dto, 0, TRUE)
  \/ /\ UNCHANGED call
     /\ \E dto \in LoginDtos : dto.password = <<"p">> /\ LoginDto(dto)
  \/ VerifyCode
  \/ /\ UNCHANGED call
     /\ \E email \in Emails : ForgotPasswordCall(email, RandUnit - 1, TRUE)
  \/ /\ UNCHANGED call
     /\ \E dto \in ResetPasswordDtos : dto.newPassword = <<"q">> /\ ResetPasswordDto(dto)
  \/ /\ UNCHANGED call
     /\ \E email \in Emails, preRegisterDto \in CompletionDtos :
          UpdateGoogleDataCall(email, preRegisterDto)
  \/ /\ UNCHANGED call
     /\ \E googleProfile \in GoogleProfiles, now \in Times :
          ValidateGoogleUserCall(googleProfile, now, TRUE)
  \/ \E req \in GoogleRequests, now \in Times, temporaryPassword \in TemporaryPasswords :
       /\ req.user # NULL
       /\ findByEmail(users, req.user[1].email) # 0
       /\ GoogleLoginReq(req, now, temporaryPassword)

SpecLifecycle == Init /\ [][NextLifecycle]_vars

\* Every operation, executed sequentially: a call starts when no other is
\* running, and while googleLogin is between its awaits only its own steps
\* are taken.  register creates the account of one email and googleLogin
\* that of the other; verifyCode is called with the code register issues and
\* resetPassword with the code forgotPassword issues; mails of register,
\* forgotPassword and validateGoogleUser are delivered.
NextSequential ==
  \/ /\ call.pc = "idle"
     /\ UNCHANGED call
     /\ \/ \E dto \in CreateDtos :
             dto.email = EmailA /\ dto.cpf = CpfA /\ RegisterDto(dto, 0, TRUE)
        \/ \E dto \in LoginDtos : dto.password = <<"p">> /\ LoginDto(dto)
        \/ \E email \in Emails : VerifyCodeCall(email, NewVerificationCode(0))
        \/ \E email \in Emails : ForgotPasswordCall(email, RandUnit - 1, TRUE)
        \/ \E dto \in ResetPasswordDtos :
             /\ dto.newPassword = <<"q">>
             /\ dto.code = NewVerificationCode(RandUnit - 1)
             /\ ResetPasswordDto(dto)
        \/ \E email \in Emails, preRegisterDto \in CompletionDtos :
             UpdateGoogleDataCall(email, preRegisterDto)
        \/ \E googleProfile \in GoogleProfiles, now \in Times :
             ValidateGoogleUserCall(googleProfile, now, TRUE)
  \/ GoogleLoginOne
  \/ GenerateUniqueCpf
  \/ GenerateUniquePhone
  \/ GoogleLoginSave

SpecSequential == Init /\ [][NextSequential]_vars

\* The registration track and the reset track, one call after another:
\* register draws the lowest code and forgotPassword the highest, and the
\* mails are delivered.  The callers keep trying: a verifyCode with the code
\* register issues is eventually made for each email, whatever else is
\* called before it.
IssuedCode == NewVerificationCode(0)

VerifyIssuedCode(email) ==
  /\ UNCHANGED call
  /\ VerifyCodeCall(email, IssuedCode)

NextTrack ==
  \/ /\ UNCHANGED call
     /\ \E dto \in RegisterPlainDtos : RegisterDto(dto, 0, TRUE)
  \/ /\ UNCHANGED call
     /\ \E dto \in LoginDtos : dto.password = <<"p">> /\ LoginDto(dto)
  \/ VerifyCode
  \/ /\ UNCHANGED call
     /\ \E email \in Emails : ForgotPasswordCall(email, RandUnit - 1, TRUE)
  \/ /\ UNCHANGED call
     /\ \E dto \in ResetPasswordDtos : dto.newPassword = <<"q">> /\ ResetPasswordDto(dto)

SpecTrack ==
  /\ Init
  /\ [][NextTrack]_vars
  /\ \A email \in Emails : WF_vars(VerifyIssuedCode(email))

-----------------------------------------------------------------------------
(* Properties.  In a step, last' is the call that made it: its arguments,    *)
(* and what it returned or raised; users is the table the call found.        *)

Rows == 1..Len(users)

HasEmail(e) == \E j \in Rows : users[j].email = e

HasPair(e, c) == \E j \in Rows : users[j].email = e /\ users[j].verificationCode = Some(c)

\* C1: login for an email whose row has isVerified = false raises Conflict and
\* returns no user; login returns a user only when a row with that email
\* exists and has isVerified = true, and then it is that row; login for an
\* email with no row returns null without raising.
C1_LoginOnlyVerified ==
  [][last'.op = "login" =>
       LET e == last'.args.email
       IN /\ (\E j \in Rows : users[j].email = e /\ ~users[j].isVerified)
               => (last'.outcome = "Conflict" /\ last'.user = NULL)
          /\ last'.user # NULL
               => \E j \in Rows : /\ users[j].email = e
                                  /\ users[j].isVerified
                                  /\ last'.user = Some(users[j])
          /\ (\E j \in Rows : users[j].email = e /\ users[j].isVerified)
               => (last'.outcome = "ok" /\ last'.user # NULL)
          /\ ~HasEmail(e) => (last'.outcome = "ok" /\ last'.user = NULL)]_vars

\* login has just refused an unverified account.
C1_Witness ==
  /\ last.op = "login"
  /\ last.outcome = "Conflict"
  /\ \E j \in Rows : users[j].email = last.args.email /\ ~users[j].isVerified

\* C2: verifyCode(email, code), when a row has that email and that code, sets
\* the row to isVerified = true, isActive = true, verificationCode = null,
\* stores it and returns success.
C2_VerifyCodeSuccess ==
  [][(last'.op = "verifyCode" /\ HasPair(last'.args.email, last'.args.code)) =>
       /\ last'.outcome = "ok"
       /\ Len(users') = Len(users)
       /\ \E j \in Rows :
            /\ users[j].email = last'.args.email
            /\ users[j].verificationCode = Some(last'.args.code)
            /\ users'[j] = [users[j] EXCEPT !.isVerified = TRUE, !.isActive = TRUE,
                                            !.verificationCode = NULL]]_vars

\* verifyCode has just activated an account with an issued code.
C2_Witness ==
  /\ last.op = "verifyCode"
  /\ last.outcome = "ok"
  /\ last.args.code \in IssuedCodes
  /\ \E j \in Rows : /\ users[j].email = last.args.email
                     /\ users[j].isVerified
                     /\ users[j].isActive
                     /\ users[j].verificationCode = NULL

\* C3: verifyCode(email, code), when no row has exactly that (email, code)
\* pair, raises Conflict, writes nothing and sends nothing.
C3_VerifyCodeNoMatch ==
  [][(last'.op = "verifyCode" /\ ~HasPair(last'.args.email, last'.args.code)) =>
       /\ last'.outcome = "Conflict"
       /\ users' = users
       /\ outbox' = <<>>]_vars

\* verifyCode has just been refused for a code that another account holds.
C3_Witness ==
  /\ last.op = "verifyCode"
  /\ last.outcome = "Conflict"
  /\ \E j \in Rows : /\ users[j].email # last.args.email
                     /\ users[j].verificationCode = Some(last.args.code)
  /\ HasEmail(last.args.email)

\* A row whose code has been cleared: null after verifyCode, '' after
\* resetPassword.  Only register and forgotPassword store a code again.
CodeCleared(e) ==
  \E j \in Rows : users[j].email = e /\ users[j].verificationCode \in {NULL, Some(EmptyStr)}

\* C4: while a user's code is cleared, every verifyCode and every
\* resetPassword for that email, with any code including the empty string,
\* raises Conflict and leaves the directory unchanged.
C4_ClearedCodeNeverMatches ==
  [][(last'.op \in {"verifyCode", "resetPassword"} /\ CodeCleared(last'.args.email)) =>
       (last'.outcome = "Conflict" /\ users' = users)]_vars

\* C5: register with an email that already belongs to a row raises Conflict,
\* leaves the directory unchanged and sends nothing.
C5_RegisterDuplicateEmail ==
  [][(last'.op = "register" /\ HasEmail(last'.args.email)) =>
       /\ last'.outcome = "Conflict"
       /\ users' = users
       /\ outbox' = <<>>]_vars

\* register has just been refused for an email already stored, with a cpf
\* that no row holds.
C5_Witness ==
  /\ last.op = "register"
  /\ last.outcome = "Conflict"
  /\ HasEmail(last.args.email)
  /\ \A j \in Rows : users[j].cpf # last.args.cpf

\* C6: register with a cpf that already belongs to a row raises Conflict and
\* creates no row; when the email is present too, the conflict reported is
\* the email one, and the cpf one otherwise.
C6_RegisterDuplicateCpf ==
  [][(last'.op = "register" /\ \E j \in Rows : users[j].cpf = last'.args.cpf) =>
       /\ last'.outcome = "Conflict"
       /\ users' = users
       /\ last'.message = IF HasEmail(last'.args.email) THEN "Email já cadastrado"
                          ELSE "CPF já cadastrado"]_vars

\* register has just been refused with email and cpf both already stored.
C6_Witness ==
  /\ last.op = "register"
  /\ last.outcome = "Conflict"
  /\ HasEmail(last.args.email)
  /\ \E j \in Rows : users[j].cpf = last.args.cpf

\* The decimal string of an integer in [100000, 999999].
IsSixDigitCode(s) ==
  /\ Len(s) = 6
  /\ \A i \in 1..6 : s[i] \in Digits
  /\ s[1] # "0"

\* C7: a successful register adds exactly one row, and that row has
\* isVerified = false, isActive = false and a verificationCode that is the
\* decimal string of an integer in [100000, 999999].
C7_RegisterCreatesUnverified ==
  [][(last'.op = "register" /\ last'.outcome = "ok") =>
       /\ Len(users') = Len(users) + 1
       /\ SubSeq(users', 1, Len(users)) = users
       /\ LET u == users'[Len(users')]
          IN /\ u.email = last'.args.email
             /\ ~u.isVerified
             /\ ~u.isActive
             /\ u.verificationCode # NULL
             /\ IsSixDigitCode(u.verificationCode[1])]_vars

\* register has just succeeded and its row is the second of the table.
C7_Witness ==
  /\ last.op = "register"
  /\ last.outcome = "ok"
  /\ Len(users) = 2
  /\ users[2].email = last.args.email
  /\ users[2].verificationCode \in {Some(c) : c \in IssuedCodes}

C9_ResetPasswordNoMatch ==
  [][(last'.op = "resetPassword" /\ ~HasPair(last'.args.email, last'.args.code)) =>
       /\ last'.outcome = "Conflict"
       /\ users' = users
       /\ \A j \in Rows : users'[j].password = users[j].password]_vars

\* resetPassword has just been refused for an account with a pending code
\* and a password other than the one offered.
C9_Witness ==
  /\ last.op = "resetPassword"
  /\ last.outcome = "Conflict"
  /\ \E j \in Rows : /\ users[j].email = last.args.email
                     /\ users[j].verificationCode \in {Some(c) : c \in IssuedCodes}
                     /\ users[j].password # last.args.newPassword

\* C10: forgotPassword(email) for an email with no row raises Conflict,
\* writes nothing and sends no reset-code notification.
C10_ForgotPasswordUnknownEmail ==
  [][(last'.op = "forgotPassword" /\ ~HasEmail(last'.args.email)) =>
       /\ last'.outcome = "Conflict"
       /\ users' = users
       /\ outbox' = <<>>]_vars

\* forgotPassword has just been refused while another account exists.
C10_Witness ==
  /\ last.op = "forgotPassword"
  /\ last.outcome = "Conflict"
  /\ ~HasEmail(last.args.email)
  /\ users # <<>>

\* C11: at most one code is accepted per account.  A forgotPassword that
\* stores a new code overwrites the code the row held, so a registration code
\* or an earlier reset code that differs from the new one is no longer paired
\* with the email; and verifyCode and resetPassword with a code other than
\* the one the row holds raise Conflict and change nothing.
C11_OnlyLatestCodeMatches ==
  [][/\ (last'.op = "forgotPassword" /\ outbox' # <<>>) =>
          \A j \in Rows :
            users[j].email = last'.args.email =>
              /\ users'[j].verificationCode = Some(outbox'[1].code)
              /\ \A c \in CodeInputs :
                   (users[j].verificationCode = Some(c) /\ c # outbox'[1].code) =>
                     ~\E i \in 1..Len(users') :
                        /\ users'[i].email = last'.args.email
                        /\ users'[i].verificationCode = Some(c)
     /\ (last'.op \in {"verifyCode", "resetPassword"}) =>
          \A j \in Rows :
            (/\ users[j].email = last'.args.email
             /\ users[j].verificationCode # Some(last'.args.code)) =>
               /\ last'.outcome = "Conflict"
               /\ users' = users]_vars

\* A verified account (its registration code was consumed) holds a code
\* stored by forgotPassword, and verifyCode or resetPassword has just been
\* refused with the other code that was issued.
C11_Witness ==
  /\ last.op \in {"verifyCode", "resetPassword"}
  /\ last.outcome = "Conflict"
  /\ last.args.code \in IssuedCodes
  /\ \E j \in Rows : /\ users[j].email = last.args.email
                     /\ users[j].isVerified
                     /\ users[j].verificationCode \in {Some(c) : c \in IssuedCodes}
                     /\ users[j].verificationCode # Some(last.args.code)

\* C12: each generator makes at most 10 lookups.  While fewer than 10 have
\* been made its next step is a lookup; when all 10 reported an existing
\* record its next step raises Conflict without an 11th lookup and without
\* a write; and it raises Conflict in no other situation.
C12_GeneratorsBoundedAtTen ==
  [][/\ (call' # call /\ call.pc = "generateUniqueCpf") =>
          /\ call.cpfLookups <= 10
          /\ call'.pc # "idle" => call'.cpfLookups = call.cpfLookups + 1
          /\ call'.cpfLookups <= 10
          /\ (call.cpfLookups = 10 \/ call'.pc = "idle") =>
               /\ call.cpfLookups = 10
               /\ call'.pc = "idle"
               /\ last'.op = "googleLogin"
               /\ last'.outcome = "Conflict"
               /\ users' = users
     /\ (call' # call /\ call.pc = "generateUniquePhone") =>
          /\ call.phoneLookups <= 10
          /\ call'.pc # "idle" => call'.phoneLookups = call.phoneLookups + 1
          /\ call'.phoneLookups <= 10
          /\ (call.phoneLookups = 10 \/ call'.pc = "idle") =>
               /\ call.phoneLookups = 10
               /\ call'.pc = "idle"
               /\ last'.op = "googleLogin"
               /\ last'.outcome = "Conflict"
               /\ users' = users]_vars

\* The phone generator has just given up: the CPF generator returned a value
\* and then ten phone lookups each reported an existing record.
C12_Witness ==
  /\ call.pc = "idle"
  /\ last.op = "googleLogin"
  /\ last.outcome = "Conflict"
  /\ last.message = "No se pudo generar un teléfono único después de varios intentos"
  /\ \E j \in Rows : users[j].phone \in GeneratedPhones

\* C13: a generator returns a value only in the step whose lookup of exactly
\* that value reported no record; it returns at the first such lookup; and a
\* candidate whose lookup reported a record is not returned.
C13_GeneratorsReturnFreeValue ==
  [][/\ (call.pc = "generateUniqueCpf" /\ call'.cpfLookups = call.cpfLookups + 1) =>
          /\ call'.existing = (\E j \in Rows : users[j].cpf = call'.candidate)
          /\ ~call'.existing => (call'.pc = "generateUniquePhone" /\ call'.cpf = call'.candidate)
          /\ call'.existing => (call'.pc = "generateUniqueCpf" /\ call'.cpf = call.cpf)
     /\ (call.pc = "generateUniquePhone" /\ call'.phoneLookups = call.phoneLookups + 1) =>
          /\ call'.existing = (\E j \in Rows : users[j].phone = call'.candidate)
          /\ ~call'.existing => (call'.pc = "save" /\ call'.phone = call'.candidate)
          /\ call'.existing => (call'.pc = "generateUniquePhone" /\ call'.phone = call.phone)
     /\ (call'.pc # "idle" /\ call'.cpf # call.cpf) =>
          /\ call.pc = "generateUniqueCpf"
          /\ ~\E j \in Rows : users[j].cpf = call'.cpf
     /\ (call'.pc # "idle" /\ call'.phone # call.phone) =>
          /\ call.pc = "generateUniquePhone"
          /\ ~\E j \in Rows : users[j].phone = call'.phone]_vars

\* Both generators have returned, each after lookups that reported an
\* existing record, and the values they returned are free.
C13_Witness ==
  /\ call.pc = "save"
  /\ call.cpfLookups > 1
  /\ call.phoneLookups > 1
  /\ ~\E j \in Rows : users[j].cpf = call.cpf \/ users[j].phone = call.phone

\* The email validateGoogleUser extracted from the profile it was called with.
CalledEmail == ProfileEmail(last'.args)

CalledPicture == ProfilePicture(last'.args)

\* C14: validateGoogleUser with a profile whose email has a row succeeds
\* without adding a row; afterwards that row has isGoogleUser = true, a
\* non-empty googleId is the one it had, whatever id the profile carries,
\* and an empty or null googleId has become the profile's id.
C14_ExistingAccountMerged ==
  [][(/\ last'.op = "validateGoogleUser"
      /\ CalledEmail # EmptyStr
      /\ HasEmail(CalledEmail)) =>
       /\ last'.outcome = "ok"
       /\ Len(users') = Len(users)
       /\ \A j \in Rows :
            users[j].email = CalledEmail =>
              /\ users'[j].email = CalledEmail
              /\ users'[j].isGoogleUser
              /\ users[j].googleId \notin {NULL, Some(EmptyStr)} =>
                   users'[j].googleId = users[j].googleId
              /\ users[j].googleId \in {NULL, Some(EmptyStr)} =>
                   users'[j].googleId = Some(last'.args.id)]_vars

\* An account linked to one Google id has just been merged with a profile
\* that carries the other id, and kept its own.
C14_Witness ==
  /\ last.op = "validateGoogleUser"
  /\ last.outcome = "ok"
  /\ outbox = <<>>
  /\ last.args.id = GoogleIdB
  /\ \E j \in Rows : /\ users[j].email = ProfileEmail(last.args)
                     /\ users[j].googleId = Some(GoogleIdA)
                     /\ users[j].isGoogleUser

\* C15: on the existing-account branch the row's cpf, phone and password are
\* unchanged, its picture is the profile's when that is non-empty and the
\* stored one otherwise, every other row is unchanged, and no notification
\* is sent.
C15_MergeFrame ==
  [][(/\ last'.op = "validateGoogleUser"
      /\ CalledEmail # EmptyStr
      /\ HasEmail(CalledEmail)) =>
       /\ outbox' = <<>>
       /\ Len(users') = Len(users)
       /\ \A j \in Rows :
            IF users[j].email = CalledEmail
            THEN /\ users'[j].cpf = users[j].cpf
                 /\ users'[j].phone = users[j].phone
                 /\ users'[j].password = users[j].password
                 /\ users'[j].picture = IF CalledPicture # EmptyStr
                                        THEN Some(CalledPicture)
                                        ELSE users[j].picture
            ELSE users'[j] = users[j]]_vars

\* A password account that completed its data and holds a picture has just
\* been merged with a profile without picture: the picture stayed.
C15_Witness ==
  /\ last.op = "validateGoogleUser"
  /\ last.outcome = "ok"
  /\ outbox = <<>>
  /\ ProfilePicture(last.args) = EmptyStr
  /\ \E j \in Rows : /\ users[j].email = ProfileEmail(last.args)
                     /\ users[j].password # EmptyStr
                     /\ users[j].cpf \in Cpfs
                     /\ users[j].picture = Some(PictureA)

\* The row validateGoogleUser writes for a novel email, as the claim
\* describes it.
IsFreshOAuthRow(row, e) ==
  /\ row.email = e
  /\ row.cpf = EmptyStr
  /\ row.phone = EmptyStr
  /\ row.password = EmptyStr
  /\ row.isGoogleUser
  /\ row.isVerified
  /\ row.isActive

\* C16: in every reachable state without a row for email e,
\* validateGoogleUser with a profile for e adds exactly one row, with
\* cpf = '', phone = '', password = '', isGoogleUser, isVerified and isActive
\* true, leaves the other rows alone and hands over exactly one welcome
\* notification.
C16_NovelEmailCreatesAccount ==
  [][(/\ last'.op = "validateGoogleUser"
      /\ CalledEmail # EmptyStr
      /\ ~HasEmail(CalledEmail)) =>
       /\ Len(users') = Len(users) + 1
       /\ SubSeq(users', 1, Len(users)) = users
       /\ IsFreshOAuthRow(users'[Len(users')], CalledEmail)
       /\ outbox' = <<Mail("googleWelcome", CalledEmail, EmptyStr)>>]_vars

\* The same statement restricted to states in which no row holds cpf = '':
\* what remains true of the creation branch.
NovelEmailCreatesAccountWhenEmptyCpfFree ==
  [][(/\ last'.op = "validateGoogleUser"
      /\ CalledEmail # EmptyStr
      /\ ~HasEmail(CalledEmail)
      /\ \A j \in Rows : users[j].cpf # EmptyStr) =>
       /\ Len(users') = Len(users) + 1
       /\ SubSeq(users', 1, Len(users)) = users
       /\ IsFreshOAuthRow(users'[Len(users')], CalledEmail)
       /\ outbox' = <<Mail("googleWelcome", CalledEmail, EmptyStr)>>]_vars

\* C17: validateGoogleUser for a novel email succeeds and adds a row while
\* an earlier OAuth-created account still has cpf = '', so that several
\* accounts with an empty cpf exist together.
C17_SecondEmptyCpfAccount ==
  [][(/\ last'.op = "validateGoogleUser"
      /\ CalledEmail # EmptyStr
      /\ ~HasEmail(CalledEmail)
      /\ \E j \in Rows : users[j].cpf = EmptyStr /\ users[j].isGoogleUser) =>
       /\ last'.outcome \in {"ok", "MailError"}
       /\ Len(users') = Len(users) + 1
       /\ \E i, j \in 1..Len(users') :
            i # j /\ users'[i].cpf = EmptyStr /\ users'[j].cpf = EmptyStr]_vars

\* C18: validateGoogleUser with a profile that has neither a non-empty
\* first emails entry nor a non-empty flat email fails with the error
\* 'Email not provided in Google profile': no row is created or modified,
\* no notification is handed over and no token or user is returned.
C18_NoEmailAborts ==
  [][(/\ last'.op = "validateGoogleUser"
      /\ (Len(last'.args.emails) = 0 \/ last'.args.emails[1] = EmptyStr)
      /\ last'.args.email = EmptyStr) =>
       /\ last'.outcome = "Error"
       /\ last'.message = "Email not provided in Google profile"
       /\ users' = users
       /\ outbox' = <<>>
       /\ last'.accessToken = NULL
       /\ last'.user = NoUser]_vars

\* A profile without email has just been refused while accounts exist.
C18_Witness ==
  /\ last.op = "validateGoogleUser"
  /\ last.outcome = "Error"
  /\ Len(last.args.emails) = 0
  /\ last.args.email = EmptyStr
  /\ Len(users) = 2

\* C19: every successful validateGoogleUser, on either branch, returns a
\* token whose claims are sub = the id of the stored row of that email,
\* email = that row's email and isGoogleUser = true.
C19_TokenClaims ==
  [][(last'.op = "validateGoogleUser" /\ last'.outcome = "ok") =>
       \E j \in 1..Len(users') :
         /\ users'[j].email = CalledEmail
         /\ users'[j].id = j
         /\ last'.accessToken =
              Some([sub |-> users'[j].id, email |-> users'[j].email, isGoogleUser |-> TRUE])]_vars

\* The second account of the table has just been created by
\* validateGoogleUser and the token names it.
C19_Witness ==
  /\ last.op = "validateGoogleUser"
  /\ last.outcome = "ok"
  /\ outbox # <<>>
  /\ Len(users) = 2
  /\ last.accessToken = Some([sub |-> 2, email |-> users[2].email, isGoogleUser |-> TRUE])

\* C20: updateGoogleData for an email without a row raises NotFound and
\* leaves every row as it was.
C20_UpdateUnknownEmail ==
  [][(last'.op = "updateGoogleData" /\ ~HasEmail(last'.args.email)) =>
       /\ last'.outcome = "NotFound"
       /\ last'.user = NoUser
       /\ users' = users
       /\ outbox' = <<>>]_vars

\* updateGoogleData has just been refused for an unknown email while an
\* OAuth-created account awaits its data.
C20_Witness ==
  /\ last.op = "updateGoogleData"
  /\ last.outcome = "NotFound"
  /\ ~HasEmail(last.args.email)
  /\ \E j \in Rows : users[j].cpf = EmptyStr /\ users[j].isGoogleUser

\* C21: updateGoogleData for an email that has a row raises Conflict and
\* changes nothing when the supplied cpf differs from the row's and another
\* row holds it; otherwise (the supplied cpf is the row's own or no other
\* row holds it) it succeeds, the row's cpf and phone are the supplied
\* values and every other row is unchanged.
C21_UpdateGoogleDataCpfRule ==
  [][(last'.op = "updateGoogleData" /\ HasEmail(last'.args.email)) =>
       \A j \in Rows :
         users[j].email = last'.args.email =>
           IF /\ last'.args.dto.cpf # users[j].cpf
              /\ \E i \in Rows : i # j /\ users[i].cpf = last'.args.dto.cpf
           THEN /\ last'.outcome = "Conflict"
                /\ users' = users
           ELSE /\ last'.outcome = "ok"
                /\ Len(users') = Len(users)
                /\ users'[j].cpf = last'.args.dto.cpf
                /\ users'[j].phone = last'.args.dto.phone
                /\ \A i \in Rows : i # j => users'[i] = users[i]]_vars

\* updateGoogleData has just been refused for an OAuth-created account that
\* asked for the cpf of another account.
C21_Witness ==
  /\ last.op = "updateGoogleData"
  /\ last.outcome = "Conflict"
  /\ \E i, j \in Rows :
       /\ i # j
       /\ users[j].email = last.args.email
       /\ users[j].cpf = EmptyStr
       /\ users[i].cpf = last.args.dto.cpf

\* C22: in every reachable state, however register, googleLogin and
\* validateGoogleUser ran or interleaved, no two rows have the same email.
C22_OneRowPerEmail ==
  \A i, j \in Rows : i # j => users[i].email # users[j].email

\* A register that had passed its checks has just lost against an OAuth
\* creation for the same email: its save was rejected and the email has the
\* one row the OAuth path stored.
C22_Witness ==
  /\ last.op = "register"
  /\ last.outcome = "QueryFailed"
  /\ \E j \in Rows : /\ users[j].email = last.args.email
                     /\ users[j].isGoogleUser
                     /\ users[j].cpf # last.args.cpf

\* C23: in every reachable state, however register, googleLogin,
\* validateGoogleUser and updateGoogleData ran or interleaved, no two rows
\* have the same non-empty cpf.
C23_OneRowPerCpf ==
  \A i, j \in Rows :
    (i # j /\ users[i].cpf # EmptyStr) => users[i].cpf # users[j].cpf

\* googleLogin's save has just been rejected for an email that still has no
\* row: the CPF its generator had found free was registered in between.
C23_Witness ==
  /\ last.op = "googleLogin"
  /\ last.message = "Error al crear usuario"
  /\ outbox = <<>>
  /\ ~HasEmail(last.args.user[1].email)
  /\ \E j \in Rows : users[j].cpf \in GeneratedCpfs

\* C24: in every reachable state, however register, googleLogin,
\* validateGoogleUser and updateGoogleData ran, no two rows have the same
\* non-empty phone.
C24_OneRowPerPhone ==
  \A i, j \in Rows :
    (i # j /\ users[i].phone # EmptyStr) => users[i].phone # users[j].phone

\* C26: when a creating call (register, or the creation branch of
\* validateGoogleUser or googleLogin) that passed its lookups resumes after
\* another call stored a row with its email, or for register its cpf, no row
\* is added and the call ends with Conflict.
C26_LostCreationRaceIsConflict ==
  [][(/\ call'.pc = "idle"
      /\ \/ /\ call.pc = "registerSave"
            /\ \E j \in Rows : \/ users[j].email = call.req.email
                                \/ users[j].cpf = call.req.cpf
         \/ /\ call.pc = "validateGoogleUserSave"
            /\ call.user = NoUser
            /\ HasEmail(ProfileEmail(call.req))
         \/ /\ call.pc = "save"
            /\ HasEmail(call.req.user[1].email)) =>
       /\ users' = users
       /\ last'.outcome = "Conflict"]_vars

\* C25: a row's verificationCode is non-null only while a registration or a
\* reset is pending: only register and forgotPassword turn a null code into a
\* non-null one, and a successful verifyCode or resetPassword leaves null in
\* the row of the email it was called for.
C25_CodeNullUnlessPending ==
  [][/\ \A j \in Rows : (users[j].verificationCode = NULL
                           /\ last'.op \notin {"register", "forgotPassword"}) =>
                          users'[j].verificationCode = NULL
     /\ (last'.op \in {"verifyCode", "resetPassword"} /\ last'.outcome = "ok") =>
          \A j \in Rows : users[j].email = last'.args.email =>
                            users'[j].verificationCode = NULL]_vars

\* The mail the call handed over was not delivered: register, forgotPassword
\* and validateGoogleUser end with the mail error, googleLogin with the
\* Conflict its catch block raises.
MailFailed ==
  /\ outbox # <<>>
  /\ \/ last.outcome = "MailError"
     \/ last.op = "googleLogin" /\ last.outcome = "Conflict"

\* C27: in the step that ends the call (the only step of register,
\* forgotPassword and validateGoogleUser, the save step of googleLogin), when
\* the mail of register, forgotPassword, validateGoogleUser or
\* googleLogin fails after the save, the save stays: the rows the call found
\* are still there, followed by the created row for register,
\* validateGoogleUser and googleLogin, and the row of the email holds the
\* code that was mailed for register and forgotPassword.
C27_MailFailureKeepsSave ==
  [][(MailFailed' /\ (call.pc = "save" \/ call' = call)) =>
       LET n == Len(users')
           to == outbox'[1].to
       IN /\ last'.op \in {"register", "validateGoogleUser", "googleLogin"} =>
               /\ n = Len(users) + 1
               /\ SubSeq(users', 1, Len(users)) = users
               /\ users'[n].email = to
          /\ last'.op \in {"register", "forgotPassword"} =>
               \E j \in 1..n : /\ users'[j].email = to
                               /\ users'[j].verificationCode = Some(outbox'[1].code)
          /\ last'.op = "forgotPassword" =>
               /\ n = Len(users)
               /\ \A j \in Rows : users[j].email # to => users'[j] = users[j]]_vars

\* googleLogin has just ended with the error of its catch block after the
\* welcome mail failed, and the row it saved is in the table.
C27_Witness ==
  /\ MailFailed
  /\ last.op = "googleLogin"
  /\ \E j \in Rows : users[j].email = outbox[1].to /\ users[j].cpf \in GeneratedCpfs

\* C28: googleLogin goes on to create a row only for an email without one.
\* The values its generators return are drawn values no row held when they
\* were looked up.  Its save step is the only one that adds a row: it adds
\* exactly one, after the rows it found, with isVerified and isActive true
\* and with the cpf and the phone the generators returned, unless the save is
\* rejected and nothing changes.  For an email that has a row, googleLogin
\* adds no row and changes nothing but lastLogin of that row.
C28_LegacyGoogleLogin ==
  [][/\ (call.pc = "idle" /\ call'.pc = "generateUniqueCpf") =>
          (~HasEmail(call'.req.user[1].email) /\ users' = users)
     /\ (call.pc = "generateUniqueCpf" /\ call'.pc = "generateUniquePhone") =>
          /\ call'.cpf \in GeneratedCpfs
          /\ ~\E j \in Rows : users[j].cpf = call'.cpf
     /\ (call.pc = "generateUniquePhone" /\ call'.pc = "save") =>
          /\ call'.phone \in GeneratedPhones
          /\ ~\E j \in Rows : users[j].phone = call'.phone
     /\ (call.pc \in {"generateUniqueCpf", "generateUniquePhone"} /\ call' # call) =>
          users' = users
     /\ (call.pc = "save" /\ call'.pc = "idle") =>
          \/ /\ users' = users
             /\ last'.outcome = "Conflict"
             /\ outbox' = <<>>
          \/ LET n == Len(users')
             IN /\ n = Len(users) + 1
                /\ SubSeq(users', 1, Len(users)) = users
                /\ users'[n].email = call.req.user[1].email
                /\ users'[n].isVerified
                /\ users'[n].isActive
                /\ users'[n].cpf = call.cpf
                /\ users'[n].phone = call.phone
     /\ (call.pc = "save" /\ call'.pc = "idle" /\ last'.outcome = "ok") => Len(users') = Len(users) + 1
     /\ (/\ call.pc = "idle"
         /\ call' = call
         /\ last'.op = "googleLogin"
         /\ last'.args.user # NULL) =>
          /\ HasEmail(last'.args.user[1].email)
          /\ Len(users') = Len(users)
          /\ \A j \in Rows :
               /\ [users'[j] EXCEPT !.lastLogin = users[j].lastLogin] = users[j]
               /\ users[j].email # last'.args.user[1].email => users'[j] = users[j]]_vars

\* googleLogin has just succeeded for an email that had no row, next to a
\* registered row that holds the first cpf a generator can draw; and the row
\* it created is verified, active, and holds another drawn cpf.
C28_Witness ==
  /\ last.op = "googleLogin"
  /\ last.outcome = "ok"
  /\ outbox # <<>>
  /\ \E i, j \in Rows :
       /\ users[i].cpf = GeneratedCpf(0, 0, 0, 0)
       /\ ~users[i].isVerified
       /\ users[j].email = last.args.user[1].email
       /\ users[j].isVerified /\ users[j].isActive
       /\ users[j].cpf \in GeneratedCpfs \ {users[i].cpf}
       /\ users[j].phone \in GeneratedPhones

\* C29: a row that is stored with isVerified = true has isVerified = true
\* after every step, whichever of verifyCode, forgotPassword, resetPassword,
\* updateGoogleData, googleLogin and validateGoogleUser saves the entity it
\* read before.
C29_VerifiedStaysVerified ==
  [][\A j \in Rows : users[j].isVerified => users'[j].isVerified]_vars

\* C30: the row of an existing record gets isVerified = true, or
\* isActive = true, only in a successful verifyCode for its email whose code
\* is the verificationCode the row holds; forgotPassword, resetPassword,
\* updateGoogleData, login, googleLogin and validateGoogleUser leave both
\* flags of every existing row as they are.
C30_OnlyVerifyCodeVerifies ==
  [][\A j \in Rows :
       /\ ((~users[j].isVerified /\ users'[j].isVerified)
             \/ (~users[j].isActive /\ users'[j].isActive)) =>
            /\ last'.op = "verifyCode"
            /\ last'.outcome = "ok"
            /\ last'.args.email = users[j].email
            /\ users[j].verificationCode = Some(last'.args.code)
       /\ last'.op \in {"forgotPassword", "resetPassword", "updateGoogleData", "login",
                        "googleLogin", "validateGoogleUser"} =>
            /\ users'[j].isVerified = users[j].isVerified
            /\ users'[j].isActive = users[j].isActive]_vars

\* A registered row is still unverified and inactive after it went through
\* forgotPassword and resetPassword and was merged by validateGoogleUser,
\* and googleLogin has just touched it.
C30_Witness ==
  /\ last.op = "googleLogin"
  /\ last.outcome = "ok"
  /\ \E j \in Rows :
       /\ users[j].email = last.args.user[1].email
       /\ ~users[j].isVerified
       /\ ~users[j].isActive
       /\ users[j].isGoogleUser
       /\ users[j].verificationCode = Some(EmptyStr)
       /\ users[j].password = <<"q">>
       /\ users[j].lastLogin # NULL

\* C31: when the operations are executed sequentially, every row has
\* isVerified = isActive in every reachable state.
C31_VerifiedIffActive ==
  \A j \in Rows : users[j].isVerified = users[j].isActive

\* The table holds a registered row that verifyCode made verified and
\* active and whose password was reset afterwards, and a row that googleLogin
\* created verified and active.
C31_Witness ==
  \E j, k \in Rows :
    /\ users[j].isVerified /\ users[j].isActive /\ users[j].cpf \in GeneratedCpfs
    /\ users[j].password \in TemporaryPasswords
    /\ users[k].isVerified /\ users[k].isActive
    /\ users[k].verificationCode = Some(EmptyStr) /\ users[k].password = <<"q">>
    /\ ~users[k].isGoogleUser

\* C32: validateGoogleUser for an email that has a row succeeds with an
\* access token and leaves isVerified, isActive and verificationCode of every
\* row as they were: login for that email gives the outcome it gave before
\* (Conflict while the row is unverified), and every code finds the row it
\* found before.
C32_MergeKeepsVerificationState ==
  [][(last'.op = "validateGoogleUser" /\ HasEmail(CalledEmail)) =>
       /\ last'.outcome = "ok"
       /\ last'.accessToken # NULL
       /\ Len(users') = Len(users)
       /\ \A j \in Rows :
            /\ users'[j].isVerified = users[j].isVerified
            /\ users'[j].isActive = users[j].isActive
            /\ users'[j].verificationCode = users[j].verificationCode
            /\ (users[j].email = CalledEmail /\ ~users[j].isVerified) =>
                 LoginResult(users', CalledEmail).outcome = "Conflict"
       /\ LoginResult(users', CalledEmail).outcome = LoginResult(users, CalledEmail).outcome
       /\ \A code \in CodeInputs :
            FindByEmailAndCode(users', CalledEmail, code)
              = FindByEmailAndCode(users, CalledEmail, code)]_vars

\* validateGoogleUser has just returned a token for a registered account
\* that is still unverified and still holds the code register issued.
C32_Witness ==
  /\ last.op = "validateGoogleUser"
  /\ last.outcome = "ok"
  /\ last.accessToken # NULL
  /\ \E j \in Rows :
       /\ users[j].email = ProfileEmail(last.args)
       /\ users[j].isGoogleUser
       /\ ~users[j].isVerified
       /\ ~users[j].isActive
       /\ users[j].verificationCode = Some(NewVerificationCode(0))
       /\ users[j].password = <<"p">>
       /\ LoginResult(users, users[j].email).outcome = "Conflict"

\* What a login call gave back: the outcome, the message and the user.
LoginAnswer(reply) == <<reply.outcome, reply.message, reply.user>>

\* C33: login writes nothing and sends nothing; it raises Conflict exactly
\* when the row of the email is unverified and returns the row exactly when
\* it is verified, whatever the password; and a login that follows a login
\* for the same email, so in the same table, gives the same answer although
\* the password differs.
C33_LoginIgnoresPassword ==
  [][last'.op = "login" =>
       LET e == last'.args.email
       IN /\ users' = users
          /\ outbox' = <<>>
          /\ (last'.outcome = "Conflict") = (\E j \in Rows : users[j].email = e /\ ~users[j].isVerified)
          /\ (last'.user # NULL) = (\E j \in Rows : users[j].email = e /\ users[j].isVerified)
          /\ last'.user # NULL => \E j \in Rows : users[j].email = e /\ last'.user = Some(users[j])
          /\ (last.op = "login" /\ last.args.email = e) =>
               LoginAnswer(last') = LoginAnswer(last)]_vars

\* login has just returned a verified user for a password that is not the
\* stored one.
C33_Witness ==
  /\ last.op = "login"
  /\ last.outcome = "ok"
  /\ last.user # NULL
  /\ last.user[1].isVerified
  /\ last.user[1].password # last.args.password

\* C34: in every step that ends a call, each mail the call handed over is
\* for something its save stored: a confirmation mail and a welcome mail for
\* the row the step added, a confirmation or reset mail carrying the
\* verificationCode that row holds after the step; a call that ends without
\* having saved (a Conflict of its checks, a rejected save) hands over no
\* mail; and a successful register, forgotPassword or creating
\* validateGoogleUser hands over exactly one.
C34_SaveBeforeMail ==
  [][~(call.pc = "idle" /\ call'.pc # "idle") =>
       LET n == Len(users')
       IN /\ \A m \in 1..Len(outbox') :
               LET mail == outbox'[m]
               IN /\ \E j \in 1..n : users'[j].email = mail.to
                  /\ mail.kind \in {"confirmation", "googleWelcome"} =>
                       /\ n = Len(users) + 1
                       /\ users'[n].email = mail.to
                  /\ last'.op \in {"register", "forgotPassword"} =>
                       \E j \in 1..n : /\ users'[j].email = mail.to
                                       /\ users'[j].verificationCode = Some(mail.code)
          /\ last'.outcome \in {"Conflict", "QueryFailed", "NotFound"} => outbox' = <<>>
          /\ (/\ last'.outcome = "ok"
              /\ \/ last'.op \in {"register", "forgotPassword"}
                 \/ last'.op = "validateGoogleUser" /\ n = Len(users) + 1) =>
               Len(outbox') = 1]_vars

\* forgotPassword has just mailed the code its save stored, which is not the
\* code register issues, for an account that signed in with Google.
C34_Witness ==
  /\ last.op = "forgotPassword"
  /\ last.outcome = "ok"
  /\ Len(outbox) = 1
  /\ outbox[1].kind = "passwordReset"
  /\ outbox[1].code # NewVerificationCode(0)
  /\ \E j \in Rows : /\ users[j].email = outbox[1].to
                      /\ users[j].verificationCode = Some(outbox[1].code)
                      /\ users[j].isGoogleUser

\* The two messages of an exhausted generator.
ExhaustedMessages ==
  {"No se pudo generar un CPF único después de varios intentos",
   "No se pudo generar un teléfono único después de varios intentos"}

\* C35: no step of a googleLogin that is still in its generators changes the
\* table or hands over a mail.  After the tenth lookup of a generator
\* reported an existing record, the next step of the call ends it with
\* Conflict and the generator's message, without reaching the save: the
\* table is unchanged, no mail is handed over, and the phone generator has
\* not run when the cpf generator gave up.
C35_ExhaustionBeforeCreation ==
  [][(call.pc \in {"generateUniqueCpf", "generateUniquePhone"} /\ call' # call) =>
       LET lookups == IF call.pc = "generateUniqueCpf"
                      THEN call.cpfLookups ELSE call.phoneLookups
       IN /\ users' = users
          /\ call'.pc # "idle" => outbox' = outbox
          /\ (lookups = 10 /\ call.existing) =>
               /\ call'.pc = "idle"
               /\ last'.op = "googleLogin"
               /\ last'.args = call.req
               /\ last'.outcome = "Conflict"
               /\ last'.message \in ExhaustedMessages
               /\ last'.user = NoUser
               /\ outbox' = <<>>
               /\ call.pc = "generateUniqueCpf" => call.phoneLookups = 0]_vars

\* The cpf generator has just given up for an email that has no row: its
\* ten draws were the cpf of a registered row.
C35_Witness ==
  /\ call.pc = "idle"
  /\ last.op = "googleLogin"
  /\ last.outcome = "Conflict"
  /\ last.message = "No se pudo generar un CPF único después de varios intentos"
  /\ outbox = <<>>
  /\ ~HasEmail(last.args.user[1].email)
  /\ \E j \in Rows : users[j].cpf \in GeneratedCpfs

AwaitsIssuedCode(e) ==
  \E j \in Rows : /\ users[j].email = e
                  /\ ~users[j].isVerified
                  /\ users[j].verificationCode = Some(IssuedCode)

VerifiedAndActive(e) ==
  \E j \in Rows : users[j].email = e /\ users[j].isVerified /\ users[j].isActive

\* The row of e holds the code forgotPassword issues: a forgotPassword for e
\* has been made.
HoldsResetCode(e) ==
  \E j \in Rows : /\ users[j].email = e
                  /\ users[j].verificationCode = Some(NewVerificationCode(RandUnit - 1))

\* The row of e, still unverified, holds the empty string a successful
\* resetPassword leaves.
CodeUsedByReset(e) ==
  \E j \in Rows : /\ users[j].email = e
                  /\ ~users[j].isVerified
                  /\ users[j].verificationCode = Some(EmptyStr)

====
